---- MODULE Spec2Model ----
(***************************************************************************)
(* Model of the todo package (src/src/todo/__init__.py): class TodoApp     *)
(* with its two persistence backends.  Two TodoApp objects are driven side *)
(* by side through the same operations, one constructed with               *)
(* db_type = "json" and one with db_type = "sqlite3", so that their        *)
(* outcomes can be compared (Spec).  SpecCli drives main_cli, one action   *)
(* per invocation of the command line, on both backends; SpecOther drives  *)
(* a TodoApp constructed with an unsupported db_type; SpecRace runs two    *)
(* processes that add() to one sqlite3 file at the same time.              *)
(*                                                                         *)
(* Encoding of Python values                                               *)
(*   str (name, description)  a TLA+ string; ordered by StrLess            *)
(*   due_date string          the sequence of the numeric fields of        *)
(*                            "%Y-%m-%dT%H:%MZ": <<Y, m, d, H, M>>; the     *)
(*                            empty string is <<>>.  The text is fixed     *)
(*                            width and zero padded, so str comparison is  *)
(*                            the lexicographic comparison of the fields.  *)
(*   dict record              a function whose DOMAIN is the set of keys   *)
(*   dict _todos              a sequence of [name, rec] in insertion order *)
(***************************************************************************)
EXTENDS Integers, Sequences, FiniteSets, TLC

\* ---------------------------------------------------------------- bounds
MaxOps == 3

\* ---------------------------------------------------------------- inputs
\* Names given to add(), remove() and done(); a store may hold other items.
Names == {"A", "B"}
Descs == {"", "x"}

\* The strings of the model in Python's str order (code point order).
StrOrder == <<"", "A", "B", "C", "x">>

Date1 == <<2024, 10, 8, 14, 0>>
Date2 == <<2024, 10, 10, 20, 0>>

\* datetime.datetime arguments of add(): None, or the wall-clock fields,
\* the seconds and the tzinfo ("naive" when tzinfo is None).
NoDate == [none |-> TRUE]
DueInputs ==
    { NoDate,
      [none |-> FALSE, f |-> <<2024, 10, 8, 14, 0>>, sec |-> 0, tz |-> "naive"],
      [none |-> FALSE, f |-> <<2024, 10, 8, 14, 0>>, sec |-> 0, tz |-> "UTC"],
      [none |-> FALSE, f |-> <<2024, 10, 31, 21, 30>>, sec |-> 30, tz |-> "America/New_York"] }

\* (sort_by, sort_order) arguments of list(): every valid pair, and the two
\* invalid ones of tests/test_todoapp.py
ListArgs ==
    ({"name", "description", "done", "due_date"} \X {"asc", "desc"})
        \cup {<<"invalid", "desc">>, <<"name", "invalid">>}

\* ------------------------------------------------------- Python helpers
RECURSIVE IndexOf(_, _, _)
IndexOf(s, x, i) ==
    IF i > Len(s) THEN 0 ELSE IF s[i] = x THEN i ELSE IndexOf(s, x, i + 1)

\* str.__lt__ on the strings of the model
StrLess(a, b) == IndexOf(StrOrder, a, 1) < IndexOf(StrOrder, b, 1)

\* Mutant of SeqLess: the empty string compares greater than any text.
RECURSIVE SeqLessEmptyLast(_, _)
SeqLessEmptyLast(a, b) ==
    IF a = <<>> THEN FALSE
    ELSE IF b = <<>> THEN TRUE
    ELSE IF Head(a) # Head(b) THEN Head(a) < Head(b)
    ELSE SeqLessEmptyLast(Tail(a), Tail(b))

\* str.__lt__ on due_date strings: lexicographic, a proper prefix is smaller
RECURSIVE SeqLess(_, _)
SeqLess(a, b) ==
    IF b = <<>> THEN FALSE
    ELSE IF a = <<>> THEN TRUE
    ELSE IF Head(a) # Head(b) THEN Head(a) < Head(b)
    ELSE SeqLess(Tail(a), Tail(b))

\* bool.__lt__: False < True
BoolLess(a, b) == (~a) /\ b

\* utcoffset() in minutes of the zones of the model at the dates of the model
UtcOffset(tz) == IF tz = "America/New_York" THEN 0 - 240 ELSE 0

DaysInMonth(y, m) ==
    IF m \in {4, 6, 9, 11} THEN 30
    ELSE IF m = 2 THEN (IF y % 4 = 0 /\ (y % 100 # 0 \/ y % 400 = 0) THEN 29 ELSE 28)
    ELSE 31

\* datetime.astimezone(ZoneInfo("UTC")): the same instant, UTC wall clock
AsTimezoneUTC(dt) ==
    LET t    == dt.f[4] * 60 + dt.f[5] - UtcOffset(dt.tz)
        c    == t \div 1440
        r    == t % 1440
        d0   == dt.f[3] + c
        over == d0 > DaysInMonth(dt.f[1], dt.f[2])
        undr == d0 < 1
        m1   == IF over THEN (IF dt.f[2] = 12 THEN 1 ELSE dt.f[2] + 1)
                ELSE IF undr THEN (IF dt.f[2] = 1 THEN 12 ELSE dt.f[2] - 1)
                ELSE dt.f[2]
        y1   == IF over /\ dt.f[2] = 12 THEN dt.f[1] + 1
                ELSE IF undr /\ dt.f[2] = 1 THEN dt.f[1] - 1
                ELSE dt.f[1]
        d1   == IF over THEN 1 ELSE IF undr THEN DaysInMonth(y1, m1) ELSE d0
    IN  [dt EXCEPT !.f = <<y1, m1, d1, r \div 60, r % 60>>, !.tz = "UTC"]

\* datetime.strftime("%Y-%m-%dT%H:%MZ"): the seconds and the zone are dropped
Strftime(dt) == dt.f

\* Mutant of DueDateStr: a timestamp with a timezone is formatted as it is,
\* without conversion to UTC.
DueDateStrKeepsWallClock(due_date) ==
    IF due_date.none THEN <<>> ELSE Strftime(due_date)

\* TodoApp.add, normalisation of due_date into due_date_str
DueDateStr(due_date) ==
    IF due_date.none THEN <<>>
    ELSE IF due_date.tz # "naive"
         THEN IF due_date.tz = "UTC" THEN Strftime(due_date)
              ELSE Strftime(AsTimezoneUTC(due_date))
         ELSE Strftime(due_date)


\* ------------------------------------------------------- dict (_todos)
\* A dict is a sequence of [name, rec] entries in insertion order.
HasKey(t, k) == \E i \in 1..Len(t) : t[i].name = k

\* t[k] for a key that is present
GetRec(t, k) == t[CHOOSE i \in 1..Len(t) : t[i].name = k].rec

\* t[k] = rec: an existing key keeps its position, a new key goes last
SetItem(t, k, rec) ==
    IF HasKey(t, k)
    THEN [i \in 1..Len(t) |-> IF t[i].name = k THEN [name |-> k, rec |-> rec] ELSE t[i]]
    ELSE Append(t, [name |-> k, rec |-> rec])

\* del t[k] for a key that is present
DelItem(t, k) == SelectSeq(t, LAMBDA e : e.name # k)

\* bool(t.get(k, None)): None and the empty dict are both false
GetTruthy(t, k) == HasKey(t, k) /\ DOMAIN GetRec(t, k) # {}

\* t.get(k, None) is None
GetIsNone(t, k) == ~HasKey(t, k)

\* ------------------------------------------------------- json document
\* json.dump / json.load of one record: a bool is written as the literal
\* true or false, a str as a quoted string; key order is kept.
JsonDumpRec(rec) ==
    [k \in DOMAIN rec |->
        IF k = "done" THEN <<"literal", IF rec[k] THEN "true" ELSE "false">>
        ELSE <<"string", rec[k]>>]

JsonLoadRec(obj) ==
    [k \in DOMAIN obj |->
        IF obj[k][1] = "literal" THEN obj[k][2] = "true" ELSE obj[k][2]]

JsonDump(t) == [i \in 1..Len(t) |-> [name |-> t[i].name, rec |-> JsonDumpRec(t[i].rec)]]
JsonLoad(doc) == [i \in 1..Len(doc) |-> [name |-> doc[i].name, rec |-> JsonLoadRec(doc[i].rec)]]

\* ------------------------------------------------------- sqlite3 values
\* sqlite3.register_adapter(bool, adapt_bool)
adapt_bool(v) == IF v THEN 1 ELSE 0

\* The converter is handed the stored value as bytes.
ColumnBytes(v) == IF v = 1 THEN "1" ELSE IF v = 0 THEN "0" ELSE "?"

\* Mutant of convert_bool: the truth value of the bytes, bool(v).
convert_boolTruthy(v) == v # ""

\* sqlite3.register_converter("boolean", convert_bool)
convert_bool(v) == IF v = "1" THEN TRUE ELSE FALSE

\* dict_factory over SELECT name, description, due_date, done FROM todo
dict_factory(row) ==
    [name |-> row.name, description |-> row.description,
     due_date |-> row.due_date, done |-> convert_bool(ColumnBytes(row.done))]

\* ------------------------------------------------------- sorting
\* x[sort_by] < y[sort_by] on the dicts that list() builds
KeyLess(sort_by, x, y) ==
    IF sort_by = "done" THEN BoolLess(x.done, y.done)
    ELSE IF sort_by = "due_date" THEN SeqLess(x.due_date, y.due_date)
    ELSE StrLess(x[sort_by], y[sort_by])

\* Mutant of SortInsert: the reverse flag is ignored.
RECURSIVE SortInsertIgnoresReverse(_, _, _, _)
SortInsertIgnoresReverse(sorted, x, sort_by, reverse) ==
    IF sorted = <<>> THEN <<x>>
    ELSE IF KeyLess(sort_by, x, Head(sorted))
         THEN <<x>> \o sorted
         ELSE <<Head(sorted)>> \o SortInsertIgnoresReverse(Tail(sorted), x, sort_by, reverse)

\* Mutant of SortInsert: an element goes before the elements of equal key.
RECURSIVE SortInsertBeforeEqual(_, _, _, _)
SortInsertBeforeEqual(sorted, x, sort_by, reverse) ==
    IF sorted = <<>> THEN <<x>>
    ELSE IF (IF reverse THEN ~KeyLess(sort_by, x, Head(sorted))
                        ELSE ~KeyLess(sort_by, Head(sorted), x))
         THEN <<x>> \o sorted
         ELSE <<Head(sorted)>> \o SortInsertBeforeEqual(Tail(sorted), x, sort_by, reverse)

\* list.sort(key=..., reverse=...) is stable in both directions: equal keys
\* keep the order they had in the list.
RECURSIVE SortInsert(_, _, _, _)
SortInsert(sorted, x, sort_by, reverse) ==
    IF sorted = <<>> THEN <<x>>
    ELSE IF (IF reverse THEN KeyLess(sort_by, Head(sorted), x)
                        ELSE KeyLess(sort_by, x, Head(sorted)))
         THEN <<x>> \o sorted
         ELSE <<Head(sorted)>> \o SortInsert(Tail(sorted), x, sort_by, reverse)

RECURSIVE ListSort(_, _, _)
ListSort(l, sort_by, reverse) ==
    IF l = <<>> THEN <<>>
    ELSE SortInsert(ListSort(SubSeq(l, 1, Len(l) - 1), sort_by, reverse),
                    l[Len(l)], sort_by, reverse)

\* ORDER BY <column> ASC|DESC on the stored column values (done is stored as
\* an integer, the text columns compare bytewise); rows with equal keys come
\* out in rowid order.
SqlLess(col, x, y) ==
    IF col = "done" THEN x.done < y.done
    ELSE IF col = "due_date" THEN SeqLess(x.due_date, y.due_date)
    ELSE StrLess(x[col], y[col])

RECURSIVE OrderInsert(_, _, _, _)
OrderInsert(sorted, x, col, desc) ==
    IF sorted = <<>> THEN <<x>>
    ELSE IF (IF desc THEN SqlLess(col, Head(sorted), x)
                     ELSE SqlLess(col, x, Head(sorted)))
         THEN <<x>> \o sorted
         ELSE <<Head(sorted)>> \o OrderInsert(Tail(sorted), x, col, desc)

RECURSIVE OrderBy(_, _, _)
OrderBy(rows, col, desc) ==
    IF rows = <<>> THEN <<>>
    ELSE OrderInsert(OrderBy(SubSeq(rows, 1, Len(rows) - 1), col, desc),
                     rows[Len(rows)], col, desc)


\* ------------------------------------------------------- state
VARIABLES
    todos,      \* json app: self._todos
    jsonFile,   \* json app: the file at self.db, [exists, doc]
    conn,       \* sqlite3 app: self._conn, "None", "open" or "closed"
    connRows,   \* sqlite3 app: the todo table as the open connection sees
                \* it, its own uncommitted statements included
    dbFile,     \* sqlite3 app: the database file at self.db,
                \* [exists, hasTable, rows]: what is committed
    last,       \* the operation performed last on both apps, with the
                \* outcome and the list() result of each
    prev,       \* the operation before it
    nOps,       \* number of operations performed
    other,      \* a TodoApp constructed with a db_type that is neither
                \* "json" nor "sqlite3", and the file at its path:
                \* [db_type, todos, conn, file]
    calls,      \* command line: how often the last invocation called
                \* load() and close() on the app of each backend
    race        \* two processes that run add() on the database file dbFile
                \* at the same time: [lock, proc], lock the process that
                \* holds the write lock of the file (0: nobody), proc[p] the
                \* position of process p in load(), add() and close()

vars == <<todos, jsonFile, conn, connRows, dbFile, last, prev, nOps, other, calls, race>>

\* ------------------------------------------------------- initial stores
\* Documents found on disk.  Files written by save() hold full records;
\* files written by hand or by an older version may hold sparse records.
Entry(n, r) == [name |-> n, rec |-> r]

InitTodos ==
    { <<>>,
      << Entry("A", [description |-> "x", due_date |-> Date2]),
         Entry("B", [description |-> "", done |-> TRUE]) >>,
      << Entry("C", [description |-> "x", due_date |-> <<>>, done |-> FALSE]),
         Entry("A", [description |-> "", due_date |-> Date1, done |-> TRUE]) >>,
      << Entry("B", [due_date |-> Date1]),
         Entry("A", <<>>) >> }

\* The same item collection as rows of the todo table.
RowOf(e) ==
    LET full == e.rec @@ [description |-> "", due_date |-> <<>>, done |-> FALSE]
    IN  [name |-> e.name, description |-> full.description,
         due_date |-> full.due_date, done |-> adapt_bool(full.done)]

RowsOf(t) == [i \in 1..Len(t) |-> RowOf(t[i])]

NoOp == [op |-> "init", name |-> "", description |-> "", due_date |-> NoDate,
         sort_by |-> "", sort_order |-> "",
         outJ |-> "ok", outS |-> "ok", resJ |-> <<>>, resS |-> <<>>]

\* TodoApp.__init__ with a db_type that load() does not know
NewOther(db_type, file) ==
    [db_type |-> db_type, todos |-> <<>>, conn |-> "None", file |-> file]

NoFile == [exists |-> FALSE, doc |-> <<>>]

\* The processes that run add() side by side, before they start.
Procs == {1, 2}
NewProc(name) ==
    [pc |-> "init", name |-> name, found |-> FALSE, inserted |-> FALSE, rows |-> <<>>]
NoRace == [lock |-> 0, proc |-> [p \in Procs |-> NewProc("A")]]

\* No invocation of the command line has run.
NoCalls == [loadJ |-> 0, closeJ |-> 0, loadS |-> 0, closeS |-> 0]

\* TodoApp.__init__ for both apps, over a file that exists or not; a database
\* file that exists may have no todo table yet
Init ==
    /\ other = NewOther("pgsql", NoFile)
    /\ calls = NoCalls
    /\ race = NoRace
    /\ todos = <<>>
    /\ conn = "None"
    /\ connRows = <<>>
    /\ \E t \in InitTodos, present \in BOOLEAN, hasTable \in BOOLEAN :
          /\ present \/ t = <<>>
          /\ hasTable => present
          /\ hasTable \/ t = <<>>
          /\ jsonFile = [exists |-> present, doc |-> JsonDump(t)]
          /\ dbFile = [exists |-> present, hasTable |-> hasTable, rows |-> RowsOf(t)]
    /\ last = NoOp
    /\ prev = [op |-> "init", name |-> ""]
    /\ nOps = 0

\* Bookkeeping shared by the actions
Record(op, name, description, due_date, sort_by, sort_order, outJ, outS, resJ, resS) ==
    /\ nOps < MaxOps
    /\ nOps' = nOps + 1
    /\ prev' = [op |-> last.op, name |-> last.name]
    /\ last' = [op |-> op, name |-> name, description |-> description,
                due_date |-> due_date, sort_by |-> sort_by, sort_order |-> sort_order,
                outJ |-> outJ, outS |-> outS, resJ |-> resJ, resS |-> resS]


\* ------------------------------------------------------- json backend
\* load(), db_type "json": a missing file leaves self._todos as it is
JsonLoaded(t, file) == IF file.exists THEN JsonLoad(file.doc) ELSE t

\* Mutant of JsonSaved: the records are written with the defaults of list()
\* filled in.
JsonSavedFilled(t) ==
    [exists |-> TRUE,
     doc |-> JsonDump([i \in 1..Len(t) |->
                [name |-> t[i].name,
                 rec |-> t[i].rec @@ [due_date |-> <<>>, done |-> FALSE]]])]

\* save(), db_type "json": the whole dict overwrites the file
JsonSaved(t) == [exists |-> TRUE, doc |-> JsonDump(t)]

\* list(), db_type "json": one dict per key, defaults first, then the record
JsonTodoList(t) ==
    [i \in 1..Len(t) |->
        t[i].rec @@ [name |-> t[i].name, due_date |-> <<>>, done |-> FALSE]]

\* list(), db_type "json": the sort key x[sort_by] raises KeyError on a dict
\* without that key
JsonList(t, sort_by, sort_order) ==
    LET todo_list == JsonTodoList(t)
    IN  IF \E i \in 1..Len(todo_list) : sort_by \notin DOMAIN todo_list[i]
        THEN [out |-> "KeyError", res |-> <<>>]
        ELSE [out |-> "ok", res |-> ListSort(todo_list, sort_by, sort_order = "desc")]

\* Mutant of JsonAdd: the description argument is not stored.
JsonAddDropsDescription(t, name, description, due_date_str) ==
    IF GetTruthy(t, name)
    THEN [out |-> "DuplicateName", todos |-> t]
    ELSE [out |-> "ok",
          todos |-> SetItem(t, name, [description |-> "",
                                     due_date |-> due_date_str,
                                     done |-> FALSE])]

\* add(), db_type "json"
JsonAdd(t, name, description, due_date_str) ==
    IF GetTruthy(t, name)
    THEN [out |-> "DuplicateName", todos |-> t]
    ELSE [out |-> "ok",
          todos |-> SetItem(t, name, [description |-> description,
                                     due_date |-> due_date_str,
                                     done |-> FALSE])]

\* Mutant of JsonRemove: a missing key is ignored.
JsonRemoveTolerant(t, name) == [out |-> "ok", todos |-> DelItem(t, name)]

\* remove(), db_type "json": del raises KeyError on a missing key
JsonRemove(t, name) ==
    IF HasKey(t, name)
    THEN [out |-> "ok", todos |-> DelItem(t, name)]
    ELSE [out |-> "KeyError", todos |-> t]

\* Mutant of JsonDone: the flag is toggled instead of set.
JsonDoneToggle(t, name) ==
    IF GetIsNone(t, name)
    THEN [out |-> "NotFound", todos |-> t]
    ELSE [out |-> "ok",
          todos |-> SetItem(t, name,
                            [done |-> ~((GetRec(t, name) @@ [done |-> FALSE]).done)]
                                @@ GetRec(t, name))]

\* done(), db_type "json"
JsonDone(t, name) ==
    IF GetIsNone(t, name)
    THEN [out |-> "NotFound", todos |-> t]
    ELSE [out |-> "ok",
          todos |-> SetItem(t, name, [done |-> TRUE] @@ GetRec(t, name))]

\* ------------------------------------------------------- sqlite3 backend
\* self._conn.<method> when self._conn is None or a closed connection
ConnError(c) == IF c = "None" THEN "AttributeError" ELSE "ProgrammingError"

\* SELECT 1 FROM todo WHERE name = ? ... fetchone()
SelectOne(rows, name) == \E i \in 1..Len(rows) : rows[i].name = name

\* list(), db_type "sqlite3"
SqlList(c, rows, sort_by, sort_order) ==
    IF c # "open" THEN [out |-> ConnError(c), res |-> <<>>]
    ELSE LET sql_sort_by == IF sort_by \in {"name", "description", "done", "due_date"}
                            THEN sort_by ELSE "name"
             sql_desc    == sort_order = "desc"
             fetched     == OrderBy(rows, sql_sort_by, sql_desc)
         IN  [out |-> "ok", res |-> [i \in 1..Len(fetched) |-> dict_factory(fetched[i])]]

\* Mutant of SqlAdd: the INSERT runs without the existence check.
SqlAddUnchecked(c, rows, name, description, due_date_str) ==
    IF c # "open" THEN [out |-> ConnError(c), rows |-> rows]
    ELSE [out |-> "ok",
          rows |-> Append(rows, [name |-> name, description |-> description,
                                 due_date |-> due_date_str,
                                 done |-> adapt_bool(FALSE)])]

\* add(), db_type "sqlite3": INSERT_TODO_ITEM after the existence check
SqlAdd(c, rows, name, description, due_date_str) ==
    IF c # "open" THEN [out |-> ConnError(c), rows |-> rows]
    ELSE IF SelectOne(rows, name) THEN [out |-> "DuplicateName", rows |-> rows]
    ELSE [out |-> "ok",
          rows |-> Append(rows, [name |-> name, description |-> description,
                                 due_date |-> due_date_str,
                                 done |-> adapt_bool(FALSE)])]

\* Mutant of SqlRemove: the DELETE has no WHERE clause.
SqlRemoveAll(c, rows, name) ==
    IF c # "open" THEN [out |-> ConnError(c), rows |-> rows]
    ELSE [out |-> "ok", rows |-> <<>>]

\* remove(), db_type "sqlite3": DELETE_TODO_ITEM, unconditional
SqlRemove(c, rows, name) ==
    IF c # "open" THEN [out |-> ConnError(c), rows |-> rows]
    ELSE [out |-> "ok", rows |-> SelectSeq(rows, LAMBDA r : r.name # name)]

\* Mutant of SqlDone: the UPDATE runs without the existence check.
SqlDoneUnchecked(c, rows, name) ==
    IF c # "open" THEN [out |-> ConnError(c), rows |-> rows]
    ELSE [out |-> "ok",
          rows |-> [i \in 1..Len(rows) |->
                      IF rows[i].name = name
                      THEN [rows[i] EXCEPT !.done = adapt_bool(TRUE)]
                      ELSE rows[i]]]

\* Mutant of SqlDone: the UPDATE has no WHERE clause.
SqlDoneAll(c, rows, name) ==
    IF c # "open" THEN [out |-> ConnError(c), rows |-> rows]
    ELSE IF ~SelectOne(rows, name) THEN [out |-> "NotFound", rows |-> rows]
    ELSE [out |-> "ok",
          rows |-> [i \in 1..Len(rows) |-> [rows[i] EXCEPT !.done = adapt_bool(TRUE)]]]

\* done(), db_type "sqlite3": UPDATE_TODO_DONE after the existence check
SqlDone(c, rows, name) ==
    IF c # "open" THEN [out |-> ConnError(c), rows |-> rows]
    ELSE IF ~SelectOne(rows, name) THEN [out |-> "NotFound", rows |-> rows]
    ELSE [out |-> "ok",
          rows |-> [i \in 1..Len(rows) |->
                      IF rows[i].name = name
                      THEN [rows[i] EXCEPT !.done = adapt_bool(TRUE)]
                      ELSE rows[i]]]

\* Mutant of SqlLoadedFile: the schema is not created.
SqlLoadedFileNoSchema(file) == [file EXCEPT !.exists = TRUE]

\* Mutant of SqlLoadedFile: the table is created anew on every load.
SqlLoadedFileRecreate(file) == [exists |-> TRUE, hasTable |-> TRUE, rows |-> <<>>]

\* load(), db_type "sqlite3": connect() creates a missing file, and
\* CREATE_TODO_TABLE runs (outside any transaction) when the table is missing
SqlLoadedFile(file) ==
    IF file.exists /\ file.hasTable THEN file
    ELSE [exists |-> TRUE, hasTable |-> TRUE, rows |-> <<>>]

\* Connection.close(): nothing in TodoApp calls commit(), so the statements
\* of the connection's open transaction are rolled back and the file keeps
\* its committed rows.
SqlClosedFile(file, rows) == file


\* ------------------------------------------------------- operations
\* TodoApp.load() on both apps
Load ==
    /\ UNCHANGED <<other, calls, race>>
    /\ todos' = JsonLoaded(todos, jsonFile)
    /\ dbFile' = SqlLoadedFile(dbFile)
    /\ conn' = "open"
    /\ connRows' = dbFile'.rows
    /\ UNCHANGED jsonFile
    /\ Record("load", "", "", NoDate, "", "", "ok", "ok", <<>>, <<>>)

\* TodoApp.save() on both apps (json only)
Save ==
    /\ UNCHANGED <<other, calls, race>>
    /\ jsonFile' = JsonSaved(todos)
    /\ UNCHANGED <<todos, conn, connRows, dbFile>>
    /\ Record("save", "", "", NoDate, "", "", "ok", "ok", <<>>, <<>>)

\* TodoApp.close() on both apps
Close ==
    /\ UNCHANGED <<other, calls, race>>
    /\ jsonFile' = JsonSaved(todos)
    /\ IF conn = "None"
       THEN /\ UNCHANGED <<conn, connRows, dbFile>>
            /\ Record("close", "", "", NoDate, "", "", "ok", "AttributeError", <<>>, <<>>)
       ELSE /\ conn' = "closed"
            /\ dbFile' = SqlClosedFile(dbFile, connRows)
            /\ connRows' = <<>>
            /\ Record("close", "", "", NoDate, "", "", "ok", "ok", <<>>, <<>>)
    /\ UNCHANGED todos

\* Mutant of List: the sqlite3 branch runs its query, with its fallback
\* column and direction, before the arguments are validated.
ListUnvalidatedSql ==
    /\ UNCHANGED <<other, calls, race>>
    /\ \E args \in ListArgs :
      LET sort_by == args[1]
          sort_order == args[2]
          j == JsonList(todos, sort_by, sort_order)
          q == SqlList(conn, connRows, sort_by, sort_order)
      IN
        /\ UNCHANGED <<todos, jsonFile, conn, connRows, dbFile>>
        /\ IF sort_by \notin {"name", "description", "done", "due_date"}
           THEN Record("list", "", "", NoDate, sort_by, sort_order,
                       "InvalidSortBy", q.out, <<>>, q.res)
           ELSE IF sort_order \notin {"asc", "desc"}
           THEN Record("list", "", "", NoDate, sort_by, sort_order,
                       "InvalidSortOrder", q.out, <<>>, q.res)
           ELSE Record("list", "", "", NoDate, sort_by, sort_order,
                       j.out, q.out, j.res, q.res)

\* TodoApp.list(sort_by, sort_order) on both apps
List ==
    /\ UNCHANGED <<other, calls, race>>
    /\ \E args \in ListArgs :
      LET sort_by == args[1]
          sort_order == args[2]
      IN
        /\ UNCHANGED <<todos, jsonFile, conn, connRows, dbFile>>
        /\ IF sort_by \notin {"name", "description", "done", "due_date"}
           THEN Record("list", "", "", NoDate, sort_by, sort_order,
                       "InvalidSortBy", "InvalidSortBy", <<>>, <<>>)
           ELSE IF sort_order \notin {"asc", "desc"}
           THEN Record("list", "", "", NoDate, sort_by, sort_order,
                       "InvalidSortOrder", "InvalidSortOrder", <<>>, <<>>)
           ELSE LET j == JsonList(todos, sort_by, sort_order)
                    q == SqlList(conn, connRows, sort_by, sort_order)
                IN  Record("list", "", "", NoDate, sort_by, sort_order,
                           j.out, q.out, j.res, q.res)

\* Mutant of Add: the json app writes its file on every add.
AddThenSave ==
    /\ UNCHANGED <<other, calls, race>>
    /\ \E name \in Names, description \in Descs, due_date \in DueInputs :
        LET due_date_str == DueDateStr(due_date)
            j == JsonAdd(todos, name, description, due_date_str)
            q == SqlAdd(conn, connRows, name, description, due_date_str)
        IN  /\ todos' = j.todos
            /\ connRows' = q.rows
            /\ jsonFile' = JsonSaved(j.todos)
            /\ UNCHANGED <<conn, dbFile>>
            /\ Record("add", name, description, due_date, "", "",
                      j.out, q.out, <<>>, <<>>)

\* TodoApp.add(name, description, due_date) on both apps
Add ==
    /\ UNCHANGED <<other, calls, race>>
    /\ \E name \in Names, description \in Descs, due_date \in DueInputs :
        LET due_date_str == DueDateStr(due_date)
            j == JsonAdd(todos, name, description, due_date_str)
            q == SqlAdd(conn, connRows, name, description, due_date_str)
        IN  /\ todos' = j.todos
            /\ connRows' = q.rows
            /\ UNCHANGED <<jsonFile, conn, dbFile>>
            /\ Record("add", name, description, due_date, "", "",
                      j.out, q.out, <<>>, <<>>)

\* TodoApp.remove(name) on both apps
Remove ==
    /\ UNCHANGED <<other, calls, race>>
    /\ \E name \in Names :
        LET j == JsonRemove(todos, name)
            q == SqlRemove(conn, connRows, name)
        IN  /\ todos' = j.todos
            /\ connRows' = q.rows
            /\ UNCHANGED <<jsonFile, conn, dbFile>>
            /\ Record("remove", name, "", NoDate, "", "", j.out, q.out, <<>>, <<>>)

\* TodoApp.done(name) on both apps
Done ==
    /\ UNCHANGED <<other, calls, race>>
    /\ \E name \in Names :
        LET j == JsonDone(todos, name)
            q == SqlDone(conn, connRows, name)
        IN  /\ todos' = j.todos
            /\ connRows' = q.rows
            /\ UNCHANGED <<jsonFile, conn, dbFile>>
            /\ Record("done", name, "", NoDate, "", "", j.out, q.out, <<>>, <<>>)

Next == Load \/ Save \/ Close \/ List \/ Add \/ Remove \/ Done

Spec == Init /\ [][Next]_vars


\* ------------------------------------------------------- unsupported db_type
\* db_type values that load() rejects; "pgsql" is the one of
\* tests/test_todoapp.py
DbTypes == {"pgsql", "JSON", "sqlite"}

\* Mutant of OtherLoaded: the connection is made before db_type is examined.
OtherLoadedConnects(o) ==
    [out |-> "ValueError",
     app |-> [o EXCEPT !.conn = "open", !.file = [@ EXCEPT !.exists = TRUE]]]

\* load(), the else branch: neither the file nor the object is touched
OtherLoaded(o) == [out |-> "ValueError", app |-> o]

\* TodoApp.__init__ with an unsupported db_type, over a file that exists or not
InitOther ==
    /\ calls = NoCalls
    /\ race = NoRace
    /\ todos = <<>>
    /\ conn = "None"
    /\ connRows = <<>>
    /\ jsonFile = NoFile
    /\ dbFile = [exists |-> FALSE, hasTable |-> FALSE, rows |-> <<>>]
    /\ \E db_type \in DbTypes, t \in InitTodos, present \in BOOLEAN :
          /\ present \/ t = <<>>
          /\ other = NewOther(db_type, [exists |-> present, doc |-> JsonDump(t)])
    /\ last = NoOp
    /\ prev = [op |-> "init", name |-> ""]
    /\ nOps = 0

\* TodoApp.load() on the app of unsupported db_type
OtherLoad ==
    LET l == OtherLoaded(other)
    IN  /\ other' = l.app
        /\ UNCHANGED <<calls, race, todos, jsonFile, conn, connRows, dbFile>>
        /\ Record("load", "", "", NoDate, "", "", l.out, l.out, <<>>, <<>>)

\* TodoApp.save(): no branch is taken
OtherSave ==
    /\ UNCHANGED <<other, calls, race, todos, jsonFile, conn, connRows, dbFile>>
    /\ Record("save", "", "", NoDate, "", "", "ok", "ok", <<>>, <<>>)

\* TodoApp.close(): no branch is taken
OtherClose ==
    /\ UNCHANGED <<other, calls, race, todos, jsonFile, conn, connRows, dbFile>>
    /\ Record("close", "", "", NoDate, "", "", "ok", "ok", <<>>, <<>>)

\* TodoApp.list(): the arguments are validated, then the empty todo_list is
\* returned
OtherList ==
    /\ UNCHANGED <<other, calls, race, todos, jsonFile, conn, connRows, dbFile>>
    /\ \E args \in ListArgs :
         LET out == IF args[1] \notin {"name", "description", "done", "due_date"}
                    THEN "InvalidSortBy"
                    ELSE IF args[2] \notin {"asc", "desc"} THEN "InvalidSortOrder"
                    ELSE "ok"
         IN  Record("list", "", "", NoDate, args[1], args[2], out, out, <<>>, <<>>)

\* TodoApp.add(): due_date_str is computed, no branch is taken
OtherAdd ==
    /\ UNCHANGED <<other, calls, race, todos, jsonFile, conn, connRows, dbFile>>
    /\ \E name \in Names, description \in Descs, due_date \in DueInputs :
         Record("add", name, description, due_date, "", "", "ok", "ok", <<>>, <<>>)

\* TodoApp.remove(): no branch is taken
OtherRemove ==
    /\ UNCHANGED <<other, calls, race, todos, jsonFile, conn, connRows, dbFile>>
    /\ \E name \in Names :
         Record("remove", name, "", NoDate, "", "", "ok", "ok", <<>>, <<>>)

\* TodoApp.done(): no branch is taken
OtherDone ==
    /\ UNCHANGED <<other, calls, race, todos, jsonFile, conn, connRows, dbFile>>
    /\ \E name \in Names :
         Record("done", name, "", NoDate, "", "", "ok", "ok", <<>>, <<>>)

NextOther ==
    OtherLoad \/ OtherSave \/ OtherClose \/ OtherList \/ OtherAdd \/ OtherRemove \/ OtherDone

SpecOther == InitOther /\ [][NextOther]_vars


\* ------------------------------------------------------- command line
\* main_cli: one action is one invocation, run on a json file and on a
\* sqlite3 file side by side.  The TodoApp objects of an invocation are
\* created and dropped inside the action: todos, conn and connRows stay as
\* __init__ leaves them, and the files carry the state from one invocation
\* to the next.  An exception ends the invocation before app.close().

\* --timezone values
Timezones == {"UTC", "America/New_York"}

\* --due-date values: "" (the default), or the fields of "%Y-%m-%dT%H:%M"
CliDueArgs == {<<>>, <<2024, 10, 31, 21, 30>>}

\* --sort-by and --sort-order: argparse admits the choices only
CliListArgs == {"name", "description", "done", "due_date"} \X {"asc", "desc"}

\* The stores the invocations start from: those of InitTodos, and one written
\* by earlier add commands, every item with a due date
InitTodosCli ==
    InitTodos \cup
    { << Entry("B", [description |-> "x", due_date |-> <<2024, 11, 1, 1, 30>>, done |-> FALSE]),
         Entry("A", [description |-> "", due_date |-> Date1, done |-> TRUE]) >> }

InitCli ==
    /\ todos = <<>>
    /\ conn = "None"
    /\ connRows = <<>>
    /\ other = NewOther("pgsql", NoFile)
    /\ calls = NoCalls
    /\ race = NoRace
    /\ \E t \in InitTodosCli, present \in BOOLEAN, hasTable \in BOOLEAN :
          /\ present \/ t = <<>>
          /\ hasTable => present
          /\ hasTable \/ t = <<>>
          /\ jsonFile = [exists |-> present, doc |-> JsonDump(t)]
          /\ dbFile = [exists |-> present, hasTable |-> hasTable, rows |-> RowsOf(t)]
    /\ last = NoOp
    /\ prev = [op |-> "init", name |-> ""]
    /\ nOps = 0

\* strptime(args.due_date, "%Y-%m-%dT%H:%M").replace(tzinfo=tz), or None
CliDueDate(arg, tz) ==
    IF arg = <<>> THEN NoDate
    ELSE [none |-> FALSE, f |-> arg, sec |-> 0, tz |-> tz]

\* datetime.astimezone(tz): the same instant, wall clock of tz
AsTimezone(dt, tz) ==
    LET t    == dt.f[4] * 60 + dt.f[5] - UtcOffset(dt.tz) + UtcOffset(tz)
        c    == t \div 1440
        r    == t % 1440
        d0   == dt.f[3] + c
        over == d0 > DaysInMonth(dt.f[1], dt.f[2])
        undr == d0 < 1
        m1   == IF over THEN (IF dt.f[2] = 12 THEN 1 ELSE dt.f[2] + 1)
                ELSE IF undr THEN (IF dt.f[2] = 1 THEN 12 ELSE dt.f[2] - 1)
                ELSE dt.f[2]
        y1   == IF over /\ dt.f[2] = 12 THEN dt.f[1] + 1
                ELSE IF undr /\ dt.f[2] = 1 THEN dt.f[1] - 1
                ELSE dt.f[1]
        d1   == IF over THEN 1 ELSE IF undr THEN DaysInMonth(y1, m1) ELSE d0
    IN  [dt EXCEPT !.f = <<y1, m1, d1, r \div 60, r % 60>>, !.tz = tz]

\* datetime.strftime("%Y-%m-%dT%H:%M%z"): the fields, then the offset
StrftimeOffset(dt) == dt.f \o <<UtcOffset(dt.tz)>>

\* strptime(s, "%Y-%m-%dT%H:%MZ") raises ValueError on a string that does not
\* match the format, the empty string included
StrptimeRaises(s) == Len(s) # 5

\* The due date of a todo as the list command shows it
DisplayDueDate(s, tz) ==
    StrftimeOffset(AsTimezone([none |-> FALSE, f |-> s, sec |-> 0, tz |-> "UTC"], tz))

\* The first loop of the list command on one todo: the due date is parsed,
\* then the lengths of name, description and due date are taken
DisplayError(todo) ==
    IF StrptimeRaises(todo.due_date) THEN "ValueError"
    ELSE IF "description" \notin DOMAIN todo THEN "KeyError"
    ELSE "ok"

\* The list command after app.list(): nothing is done for an empty list; the
\* first todo that raises ends the invocation; otherwise the rows are printed
CliDisplay(l, tz) ==
    IF l.out # "ok" THEN [out |-> l.out, res |-> <<>>]
    ELSE IF \E i \in 1..Len(l.res) : DisplayError(l.res[i]) # "ok"
    THEN LET i == CHOOSE k \in 1..Len(l.res) :
                     /\ DisplayError(l.res[k]) # "ok"
                     /\ \A m \in 1..(k - 1) : DisplayError(l.res[m]) = "ok"
         IN  [out |-> DisplayError(l.res[i]), res |-> <<>>]
    ELSE [out |-> "ok",
          res |-> [i \in 1..Len(l.res) |->
                      [l.res[i] EXCEPT !.due_date = DisplayDueDate(@, tz)]]]

\* Mutant of TodosAfterDisplay: list() hands out the stored dicts, so the
\* display strings are written into them.
TodosAfterDisplayAliased(t, shown) ==
    [i \in 1..Len(t) |->
        IF \E j \in 1..Len(shown) : shown[j].name = t[i].name
        THEN LET j == CHOOSE k \in 1..Len(shown) : shown[k].name = t[i].name
             IN  [t[i] EXCEPT !.rec = [due_date |-> shown[j].due_date] @@ @]
        ELSE t[i]]

\* Mutant of TodosAfterDisplay: list() fills its defaults into the stored
\* records.
TodosAfterDisplayFilled(t, shown) ==
    [i \in 1..Len(t) |->
        [t[i] EXCEPT !.rec = @ @@ [due_date |-> <<>>, done |-> FALSE]]]

\* self._todos after the list command has rewritten todo["due_date"] of the
\* dicts it was given: list() built them anew, the stored ones are not reached
TodosAfterDisplay(t, shown) == t

\* app.load() runs once at the start of main_cli; app.close() is its last
\* statement, reached when the command raised nothing
CliCalls(outJ, outS) ==
    [loadJ |-> 1, closeJ |-> IF outJ = "ok" THEN 1 ELSE 0,
     loadS |-> 1, closeS |-> IF outS = "ok" THEN 1 ELSE 0]

\* todo add NAME [--description D] [--due-date DATE] [--timezone TZ]
CliAdd ==
    /\ UNCHANGED <<other, race, todos, conn, connRows>>
    /\ \E name \in Names, description \in Descs, arg \in CliDueArgs, tz \in Timezones :
         LET due_date == CliDueDate(arg, tz)
             t0 == JsonLoaded(<<>>, jsonFile)
             f0 == SqlLoadedFile(dbFile)
             j  == JsonAdd(t0, name, description, DueDateStr(due_date))
             q  == SqlAdd("open", f0.rows, name, description, DueDateStr(due_date))
         IN  /\ arg = <<>> => tz = "UTC"
             /\ jsonFile' = IF j.out = "ok" THEN JsonSaved(j.todos) ELSE jsonFile
             /\ dbFile' = IF q.out = "ok" THEN SqlClosedFile(f0, q.rows) ELSE f0
             /\ calls' = CliCalls(j.out, q.out)
             /\ Record("add", name, description, due_date, "", "",
                       j.out, q.out, <<>>, <<>>)

\* todo done NAME
CliDone ==
    /\ UNCHANGED <<other, race, todos, conn, connRows>>
    /\ \E name \in Names :
         LET t0 == JsonLoaded(<<>>, jsonFile)
             f0 == SqlLoadedFile(dbFile)
             j  == JsonDone(t0, name)
             q  == SqlDone("open", f0.rows, name)
         IN  /\ jsonFile' = IF j.out = "ok" THEN JsonSaved(j.todos) ELSE jsonFile
             /\ dbFile' = IF q.out = "ok" THEN SqlClosedFile(f0, q.rows) ELSE f0
             /\ calls' = CliCalls(j.out, q.out)
             /\ Record("done", name, "", NoDate, "", "", j.out, q.out, <<>>, <<>>)

\* todo list [--sort-by F] [--sort-order O] [--timezone TZ]
CliList ==
    /\ UNCHANGED <<other, race, todos, conn, connRows>>
    /\ \E args \in CliListArgs, tz \in Timezones :
         LET t0 == JsonLoaded(<<>>, jsonFile)
             f0 == SqlLoadedFile(dbFile)
             j  == CliDisplay(JsonList(t0, args[1], args[2]), tz)
             q  == CliDisplay(SqlList("open", f0.rows, args[1], args[2]), tz)
         IN  /\ jsonFile' = IF j.out = "ok"
                            THEN JsonSaved(TodosAfterDisplay(t0, j.res))
                            ELSE jsonFile
             /\ dbFile' = IF q.out = "ok" THEN SqlClosedFile(f0, f0.rows) ELSE f0
             /\ calls' = CliCalls(j.out, q.out)
             /\ Record("list", "", "", NoDate, args[1], args[2],
                       j.out, q.out, j.res, q.res)

\* Mutant of CliRm: app.close() runs in a finally clause.
CliRmAlwaysCloses ==
    /\ UNCHANGED <<other, race, todos, conn, connRows>>
    /\ \E name \in Names :
         LET t0 == JsonLoaded(<<>>, jsonFile)
             f0 == SqlLoadedFile(dbFile)
             j  == JsonRemove(t0, name)
             q  == SqlRemove("open", f0.rows, name)
         IN  /\ jsonFile' = JsonSaved(j.todos)
             /\ dbFile' = SqlClosedFile(f0, q.rows)
             /\ calls' = CliCalls("ok", "ok")
             /\ Record("rm", name, "", NoDate, "", "", j.out, q.out, <<>>, <<>>)

\* todo rm NAME
CliRm ==
    /\ UNCHANGED <<other, race, todos, conn, connRows>>
    /\ \E name \in Names :
         LET t0 == JsonLoaded(<<>>, jsonFile)
             f0 == SqlLoadedFile(dbFile)
             j  == JsonRemove(t0, name)
             q  == SqlRemove("open", f0.rows, name)
         IN  /\ jsonFile' = IF j.out = "ok" THEN JsonSaved(j.todos) ELSE jsonFile
             /\ dbFile' = IF q.out = "ok" THEN SqlClosedFile(f0, q.rows) ELSE f0
             /\ calls' = CliCalls(j.out, q.out)
             /\ Record("rm", name, "", NoDate, "", "", j.out, q.out, <<>>, <<>>)

NextCli == CliAdd \/ CliDone \/ CliList \/ CliRm

SpecCli == InitCli /\ [][NextCli]_vars


\* ------------------------------------------------------- concurrent add
\* Two processes, each with a TodoApp of db_type "sqlite3" on the same file,
\* run load(), add(name) and close().  One action is one statement that
\* reaches the database.  The file is in rollback-journal mode: readers are
\* admitted while another connection holds the write lock, a second writer
\* is not; nothing is committed, so a connection's rows are its own until
\* close() discards them.

\* The todo table as process p sees it: what is committed and its own rows
RaceView(p) == dbFile.rows \o race.proc[p].rows

\* INSERT_TODO_ITEM of add()
InsertedRow(name, description, due_date_str) ==
    [name |-> name, description |-> description, due_date |-> due_date_str,
     done |-> adapt_bool(FALSE)]

InitRace ==
    /\ todos = <<>>
    /\ conn = "None"
    /\ connRows = <<>>
    /\ jsonFile = NoFile
    /\ other = NewOther("pgsql", NoFile)
    /\ calls = NoCalls
    /\ \E t \in InitTodos, present \in BOOLEAN, hasTable \in BOOLEAN :
          /\ present \/ t = <<>>
          /\ hasTable => present
          /\ hasTable \/ t = <<>>
          /\ dbFile = [exists |-> present, hasTable |-> hasTable, rows |-> RowsOf(t)]
    /\ \E n1 \in Names, n2 \in Names :
          race = [lock |-> 0, proc |-> (1 :> NewProc(n1)) @@ (2 :> NewProc(n2))]
    /\ last = NoOp
    /\ prev = [op |-> "init", name |-> ""]
    /\ nOps = 0

RaceFrame == UNCHANGED <<todos, jsonFile, conn, connRows, last, prev, nOps, other, calls>>

\* load() of process p
RaceLoad(p) ==
    /\ race.proc[p].pc = "init"
    /\ dbFile' = SqlLoadedFile(dbFile)
    /\ race' = [race EXCEPT !.proc[p].pc = "loaded"]
    /\ RaceFrame

\* add(), the existence check: SELECT 1 FROM todo WHERE name = ?
RaceSelect(p) ==
    /\ race.proc[p].pc = "loaded"
    /\ race' = [race EXCEPT !.proc[p].pc = "selected",
                            !.proc[p].found = SelectOne(RaceView(p), race.proc[p].name)]
    /\ UNCHANGED dbFile
    /\ RaceFrame

\* add(), a row was found: ValueError
RaceDuplicate(p) ==
    /\ race.proc[p].pc = "selected"
    /\ race.proc[p].found
    /\ race' = [race EXCEPT !.proc[p].pc = "raised"]
    /\ UNCHANGED dbFile
    /\ RaceFrame

\* add(), the INSERT: it opens the transaction of p and takes the write lock
RaceInsert(p) ==
    /\ race.proc[p].pc = "selected"
    /\ ~race.proc[p].found
    /\ race.lock \in {0, p}
    /\ race' = [race EXCEPT !.lock = p,
                            !.proc[p].pc = "inserted",
                            !.proc[p].inserted = TRUE,
                            !.proc[p].rows = Append(@, InsertedRow(race.proc[p].name, "", <<>>))]
    /\ UNCHANGED dbFile
    /\ RaceFrame

\* add(), the INSERT while the other process holds the write lock: it waits,
\* and when the busy timeout runs out it raises OperationalError
RaceLocked(p) ==
    /\ race.proc[p].pc = "selected"
    /\ ~race.proc[p].found
    /\ race.lock \notin {0, p}
    /\ race' = [race EXCEPT !.proc[p].pc = "raised"]
    /\ UNCHANGED dbFile
    /\ RaceFrame

\* close() of process p, or the end of a process whose add() raised: the
\* open transaction is rolled back and the lock released
RaceClose(p) ==
    /\ race.proc[p].pc \in {"inserted", "raised"}
    /\ dbFile' = SqlClosedFile(dbFile, RaceView(p))
    /\ race' = [race EXCEPT !.lock = IF @ = p THEN 0 ELSE @,
                            !.proc[p].pc = "closed",
                            !.proc[p].rows = <<>>]
    /\ RaceFrame

NextRace ==
    \E p \in Procs :
        \/ RaceLoad(p)
        \/ RaceSelect(p)
        \/ RaceDuplicate(p)
        \/ RaceInsert(p)
        \/ RaceLocked(p)
        \/ RaceClose(p)

SpecRace == InitRace /\ [][NextRace]_vars


\* ------------------------------------------------------- properties
FieldKeys == {"description", "due_date", "done"}

\* Every record of the dict carries its three fields.
FullRecords(t) == \A i \in 1..Len(t) : DOMAIN t[i].rec = FieldKeys

\* No two entries of a sequence of items share a name.
UniqueNames(s) == \A i, j \in 1..Len(s) : s[i].name = s[j].name => i = j

\* What a fresh TodoApp on the same files sees after load()
FreshJsonTodos == JsonLoaded(<<>>, jsonFile)
FreshSqlRows == SqlLoadedFile(dbFile).rows

\* C1: driven through the same operations from the same item collection,
\* the json and the sqlite3 backend give the same success-or-error outcome
\* for every operation and the same result for every list().  Stated here
\* for the most favourable case only: full records, performed on a loaded
\* store.
C1_BackendsAgree ==
    (conn = "open" /\ FullRecords(todos) /\ last.op \in {"load", "list", "add", "remove", "done"})
        => /\ (last.outJ = "ok") <=> (last.outS = "ok")
           /\ last.op = "list" /\ last.outJ = "ok" => last.resJ = last.resS

\* C2: add() of a name already present fails with the duplicate-name error
\* and leaves every item unchanged, in both backends, sparse records included.
C2_DuplicateAddFails ==
    [][ last'.op = "add" =>
          /\ HasKey(todos, last'.name)
                => last'.outJ = "DuplicateName" /\ todos' = todos
          /\ (conn = "open" /\ SelectOne(connRows, last'.name))
                => last'.outS = "DuplicateName" /\ connRows' = connRows /\ dbFile' = dbFile
      ]_vars

\* C3: in the sqlite3 backend every successful add, remove or done is held by
\* the database file: after close() a fresh open reads the rows that the
\* closed connection saw.
C3_CloseKeepsMutations ==
    [][ (last'.op = "close" /\ conn = "open") => FreshSqlRows' = connRows ]_vars

\* C4: after a successful add(name, description, due_date) a list() holds
\* exactly one item with that name, with done false, the given description
\* and the normalized due date, in both backends.
AddedOnce(res, a) ==
    /\ Cardinality({i \in 1..Len(res) : res[i].name = a.name}) = 1
    /\ \A i \in 1..Len(res) :
          res[i].name = a.name
             => /\ res[i].done = FALSE
                /\ res[i].description = a.description
                /\ res[i].due_date = DueDateStr(a.due_date)

C4_AddThenList ==
    [][ last'.op = "add" =>
          /\ last'.outJ = "ok"
                => /\ JsonList(todos', "name", "asc").out = "ok"
                   /\ AddedOnce(JsonList(todos', "name", "asc").res, last')
          /\ last'.outS = "ok"
                => /\ SqlList(conn', connRows', "name", "asc").out = "ok"
                   /\ AddedOnce(SqlList(conn', connRows', "name", "asc").res, last')
      ]_vars

C4_Witness ==
    /\ last.op = "add" /\ last.outJ = "ok" /\ last.outS = "ok"
    /\ last.due_date # NoDate /\ last.due_date.tz = "America/New_York"
    /\ last.description = "x"
    /\ Len(todos) >= 2 /\ Len(connRows) >= 2

\* C5: from a store without duplicate names, no sequence of operations
\* leaves two items with the same name: in memory, in the json file, in the
\* connection's view of the table or in the database file.
C5_UniqueNames ==
    /\ UniqueNames(todos)
    /\ UniqueNames(jsonFile.doc)
    /\ UniqueNames(connRows)
    /\ UniqueNames(dbFile.rows)

C5_Witness ==
    /\ last.op = "add" /\ last.outS = "ok" /\ last.outJ = "ok"
    /\ prev.op = "remove" /\ prev.name = last.name
    /\ Len(connRows) >= 2 /\ Len(todos) >= 2


\* The item of a dict or of a table is marked done.
JsonIsDone(t, n) == HasKey(t, n) /\ "done" \in DOMAIN GetRec(t, n) /\ GetRec(t, n).done = TRUE
SqlIsDone(rows, n) ==
    /\ SelectOne(rows, n)
    /\ \A i \in 1..Len(rows) : rows[i].name = n => dict_factory(rows[i]).done = TRUE

\* C6: done(name) on an existing item sets done to true, and a second
\* done(name) raises nothing and leaves the store as the first call left it,
\* in both backends.
C6_DoneIdempotent ==
    [][ last'.op = "done" =>
          /\ HasKey(todos, last'.name)
                => last'.outJ = "ok" /\ JsonIsDone(todos', last'.name)
          /\ (conn = "open" /\ SelectOne(connRows, last'.name))
                => last'.outS = "ok" /\ SqlIsDone(connRows', last'.name)
          /\ (last.op = "done" /\ last.name = last'.name /\ last.outJ = "ok")
                => last'.outJ = "ok" /\ todos' = todos /\ jsonFile' = jsonFile
          /\ (last.op = "done" /\ last.name = last'.name /\ last.outS = "ok")
                => last'.outS = "ok" /\ connRows' = connRows /\ dbFile' = dbFile
      ]_vars

C6_Witness ==
    /\ last.op = "done" /\ prev.op = "done" /\ prev.name = last.name
    /\ last.outJ = "ok" /\ last.outS = "ok"
    /\ JsonIsDone(todos, last.name) /\ SqlIsDone(connRows, last.name)

\* C7: done(name) for a name with no item fails with the not-found error and
\* creates or modifies nothing, in both backends.
C7_DoneMissingFails ==
    [][ last'.op = "done" =>
          /\ ~HasKey(todos, last'.name)
                => last'.outJ = "NotFound" /\ todos' = todos /\ jsonFile' = jsonFile
          /\ (conn = "open" /\ ~SelectOne(connRows, last'.name))
                => last'.outS = "NotFound" /\ connRows' = connRows /\ dbFile' = dbFile
      ]_vars

C7_Witness ==
    /\ last.op = "done" /\ last.outJ = "NotFound" /\ last.outS = "NotFound"
    /\ Len(todos) >= 1 /\ Len(connRows) >= 1

\* C8: close() on the json app writes the whole in-memory dict: a fresh
\* TodoApp that loads the same path holds exactly the same names, in the same
\* order, with the same records.
C8_CloseThenLoad ==
    [][ last'.op = "close" => FreshJsonTodos' = todos /\ todos' = todos ]_vars

C8_Witness ==
    /\ last.op = "close" /\ prev.op = "done"
    /\ Len(todos) >= 2 /\ ~FullRecords(todos)
    /\ FreshJsonTodos = todos

\* C9: in the json app only save() and close() change the file; add, remove
\* and done show in the in-memory list at once.
C9_FileWrittenOnlyOnSave ==
    [][ /\ jsonFile' # jsonFile => last'.op \in {"save", "close"}
        /\ (last'.op = "add" /\ last'.outJ = "ok")
              => \E i \in 1..Len(todos') : JsonTodoList(todos')[i].name = last'.name
        /\ (last'.op = "remove" /\ last'.outJ = "ok")
              => \A i \in 1..Len(todos') : JsonTodoList(todos')[i].name # last'.name
        /\ (last'.op = "done" /\ last'.outJ = "ok")
              => \E i \in 1..Len(todos') :
                    /\ JsonTodoList(todos')[i].name = last'.name
                    /\ JsonTodoList(todos')[i].done = TRUE
      ]_vars

C9_Witness ==
    /\ last.op \in {"add", "remove", "done"} /\ last.outJ = "ok"
    /\ prev.op = "load"
    /\ jsonFile.exists /\ FreshJsonTodos # todos

\* A list() result holds each item of the store once, in the order asked for.
ListsAll(res, items) ==
    /\ Len(res) = Len(items)
    /\ \A j \in 1..Len(items) :
          Cardinality({i \in 1..Len(res) : res[i] = items[j]}) = 1

Ordered(res, sort_by, sort_order) ==
    \A i, j \in 1..Len(res) :
        i < j => IF sort_order = "asc"
                 THEN ~KeyLess(sort_by, res[j], res[i])
                 ELSE ~KeyLess(sort_by, res[i], res[j])

FalseBeforeTrue(res) ==
    \A i, j \in 1..Len(res) : i < j => ~(res[i].done = TRUE /\ res[j].done = FALSE)

ListedInOrder(out, res, items, sort_by, sort_order) ==
    /\ out = "ok"
    /\ ListsAll(res, items)
    /\ Ordered(res, sort_by, sort_order)
    /\ (sort_by = "done" /\ sort_order = "asc") => FalseBeforeTrue(res)

ValidListArgs ==
    /\ last.sort_by \in {"name", "description", "done", "due_date"}
    /\ last.sort_order \in {"asc", "desc"}

\* C10: for every store and every valid (sort_by, sort_order), list() returns
\* every stored item exactly once, non-decreasing by the sort field for asc
\* and non-increasing for desc, done false before done true for asc, in both
\* backends.
C10_ListSorted ==
    (last.op = "list" /\ ValidListArgs)
        => /\ ListedInOrder(last.outJ, last.resJ, JsonTodoList(todos),
                            last.sort_by, last.sort_order)
           /\ conn = "open"
                => ListedInOrder(last.outS, last.resS,
                                 [i \in 1..Len(connRows) |-> dict_factory(connRows[i])],
                                 last.sort_by, last.sort_order)


\* C11: list() with a sort field or a sort order outside the valid values
\* fails with the invalid-argument error in both backends, whatever the state
\* of the store or of the connection (nothing is read), and changes nothing.
C11_InvalidListArgs ==
    [][ (last'.op = "list" /\ ~ValidListArgs')
          => /\ last'.outJ = last'.outS
             /\ last'.outJ = (IF last'.sort_by \notin {"name", "description", "done", "due_date"}
                              THEN "InvalidSortBy" ELSE "InvalidSortOrder")
             /\ last'.resJ = <<>> /\ last'.resS = <<>>
             /\ UNCHANGED <<todos, jsonFile, conn, connRows, dbFile>>
      ]_vars

C11_Witness ==
    /\ last.op = "list" /\ last.outJ = "InvalidSortOrder" /\ last.outS = "InvalidSortOrder"
    /\ conn = "closed" /\ todos # <<>> /\ ~FullRecords(todos)

\* Minutes on a calendar in which every month has 31 days: larger for a later
\* instant.
Chrono(d) == (((d[1] * 12 + d[2]) * 31 + d[3]) * 24 + d[4]) * 60 + d[5]

DueDateAscending(res) ==
    \A i, j \in 1..Len(res) :
        i < j => /\ res[j].due_date = <<>> => res[i].due_date = <<>>
                 /\ (res[i].due_date # <<>> /\ res[j].due_date # <<>>)
                       => Chrono(res[i].due_date) <= Chrono(res[j].due_date)

\* C12: list("due_date", "asc") returns the items without a due date first
\* and the others in chronological order, in both backends.
C12_DueDateOrder ==
    (last.op = "list" /\ last.sort_by = "due_date" /\ last.sort_order = "asc")
        => /\ last.outJ = "ok" /\ Len(last.resJ) = Len(todos)
           /\ DueDateAscending(last.resJ)
           /\ conn = "open"
                => /\ last.outS = "ok" /\ Len(last.resS) = Len(connRows)
                   /\ DueDateAscending(last.resS)

DatedAndUndated(res) ==
    /\ \E i \in 1..Len(res) : res[i].due_date = <<>>
    /\ \E i, j \in 1..Len(res) :
          /\ res[i].due_date # <<>> /\ res[j].due_date # <<>>
          /\ res[i].due_date # res[j].due_date

C12_Witness ==
    /\ last.op = "list" /\ last.sort_by = "due_date" /\ last.sort_order = "asc"
    /\ last.outJ = "ok" /\ last.outS = "ok"
    /\ DatedAndUndated(last.resJ) /\ DatedAndUndated(last.resS)

Reverse(s) == [i \in 1..Len(s) |-> s[Len(s) + 1 - i]]

OtherOrder(sort_order) == IF sort_order = "asc" THEN "desc" ELSE "asc"

\* C13: with no two items of the same name, list("name", "desc") is the
\* reverse of list("name", "asc"), in both backends.
C13_NameOrdersReverse ==
    (last.op = "list" /\ last.sort_by = "name" /\ ValidListArgs
        /\ UniqueNames(todos) /\ UniqueNames(connRows))
        => /\ last.outJ = "ok"
           /\ last.resJ = Reverse(JsonList(todos, "name", OtherOrder(last.sort_order)).res)
           /\ conn = "open"
                => /\ last.outS = "ok"
                   /\ last.resS = Reverse(SqlList(conn, connRows, "name",
                                                  OtherOrder(last.sort_order)).res)

C13_Witness ==
    /\ last.op = "list" /\ last.sort_by = "name" /\ last.sort_order = "desc"
    /\ last.outJ = "ok" /\ last.outS = "ok"
    /\ Len(last.resJ) = 3 /\ Len(last.resS) = 3
    /\ last.resJ # Reverse(last.resJ)


\* Every entry of s whose name is not n is an entry of s2, in the same order,
\* and s2 holds nothing else.
OthersKept(s, s2, n) == s2 = SelectSeq(s, LAMBDA e : e.name # n)

\* C16: remove(name) of an existing item leaves no item of that name and
\* leaves every other item as it was, in both backends.
C16_RemoveExisting ==
    [][ last'.op = "remove" =>
          /\ HasKey(todos, last'.name)
                => /\ last'.outJ = "ok"
                   /\ ~HasKey(todos', last'.name)
                   /\ Len(todos') = Len(todos) - 1
                   /\ OthersKept(todos, todos', last'.name)
          /\ (conn = "open" /\ SelectOne(connRows, last'.name))
                => /\ last'.outS = "ok"
                   /\ ~SelectOne(connRows', last'.name)
                   /\ Len(connRows') < Len(connRows)
                   /\ OthersKept(connRows, connRows', last'.name)
      ]_vars

C16_Witness ==
    /\ last.op = "remove" /\ last.outJ = "ok" /\ last.outS = "ok" /\ prev.op = "load"
    /\ ~HasKey(todos, last.name) /\ ~SelectOne(connRows, last.name)
    /\ Len(todos) >= 1 /\ Len(connRows) >= 1
    /\ Len(dbFile.rows) = Len(connRows) + 1

\* C17: remove(name) for a name with no item changes nothing; the sqlite3
\* backend returns normally and the json backend raises an error.
C17_RemoveMissing ==
    [][ last'.op = "remove" =>
          /\ ~HasKey(todos, last'.name)
                => last'.outJ = "KeyError" /\ todos' = todos /\ jsonFile' = jsonFile
          /\ (conn = "open" /\ ~SelectOne(connRows, last'.name))
                => last'.outS = "ok" /\ connRows' = connRows /\ dbFile' = dbFile
      ]_vars

C17_Witness ==
    /\ last.op = "remove" /\ last.outJ = "KeyError" /\ last.outS = "ok"
    /\ conn = "open" /\ Len(todos) >= 1 /\ Len(connRows) >= 1

\* C18: load() of a new TodoApp on a path where no file exists succeeds in
\* both backends: the json app holds no item, the sqlite3 app has created the
\* file with an empty todo table.
C18_LoadMissingFile ==
    [][ (last'.op = "load" /\ last.op = "init") =>
          /\ ~jsonFile.exists
                => last'.outJ = "ok" /\ todos' = <<>>
          /\ ~dbFile.exists
                => /\ last'.outS = "ok" /\ conn' = "open"
                   /\ dbFile'.exists /\ dbFile'.hasTable /\ dbFile'.rows = <<>>
                   /\ connRows' = <<>>
                   /\ SqlList(conn', connRows', "name", "asc").out = "ok"
      ]_vars

C18_Witness ==
    /\ last.op = "load" /\ prev.op = "init" /\ nOps = 1
    /\ ~jsonFile.exists /\ todos = <<>>
    /\ dbFile.exists /\ dbFile.hasTable /\ conn = "open"

\* C19: load() on a database file that holds the todo table leaves the table
\* and its rows as they are, close() as well, however often they are called;
\* the table is created only by a load() that finds none.
C19_LoadKeepsTable ==
    [][ /\ (last'.op = "load" /\ dbFile.exists /\ dbFile.hasTable)
              => /\ last'.outS = "ok" /\ conn' = "open"
                 /\ dbFile' = dbFile
                 /\ connRows' = dbFile.rows
        /\ last'.op = "close" => dbFile' = dbFile
        /\ (dbFile'.hasTable /\ ~dbFile.hasTable) => last'.op = "load"
      ]_vars

C19_Witness ==
    /\ nOps = 3 /\ last.op = "load" /\ prev.op = "close"
    /\ dbFile.hasTable /\ Len(dbFile.rows) >= 2 /\ connRows = dbFile.rows


\* C20: for a db_type other than "json" and "sqlite3", load() raises the
\* ValueError of the unsupported type; no file is created or changed, no
\* connection is made and no item is held in memory.
C20_UnsupportedTypeLoad ==
    [][ (last'.op = "load" /\ other.db_type \notin {"json", "sqlite3"}) =>
          /\ last'.outJ = "ValueError"
          /\ other'.file = other.file
          /\ other'.conn = "None"
          /\ other'.todos = <<>>
      ]_vars

C20_Witness ==
    /\ last.op = "load" /\ last.outJ = "ValueError"
    /\ other.db_type = "JSON"
    /\ other.file.exists /\ other.file.doc # <<>>
    /\ other.todos = <<>> /\ other.conn = "None"


\* Some item of the list has the empty due date.
HasUndated(items) == \E i \in 1..Len(items) : items[i].due_date = <<>>

\* C14: the list command on a store that holds an item without due date
\* shows the empty due date as it is and completes without error, on both
\* backends.  Stated for stores of full records.
C14_ListUndatedCompletes ==
    [][ last'.op = "list" =>
          /\ ( /\ FullRecords(JsonLoaded(<<>>, jsonFile))
               /\ HasUndated(JsonTodoList(JsonLoaded(<<>>, jsonFile))) )
                => last'.outJ = "ok"
          /\ (dbFile.hasTable /\ HasUndated(dbFile.rows))
                => last'.outS = "ok"
      ]_vars

\* The stored due date of every item, by name.
StoredDueDates(items) ==
    [i \in 1..Len(items) |-> [name |-> items[i].name, due_date |-> items[i].due_date]]

\* C15: a list command, its closing save or close included, leaves every
\* due date in the json file and in the database file as it was, whatever
\* the display timezone and whether or not the command completes.
C15_DisplayKeepsStored ==
    [][ last'.op = "list" =>
          /\ StoredDueDates(JsonTodoList(JsonLoaded(<<>>, jsonFile')))
               = StoredDueDates(JsonTodoList(JsonLoaded(<<>>, jsonFile)))
          /\ dbFile'.rows = dbFile.rows
      ]_vars

C15_Witness ==
    /\ last.op = "list" /\ last.outJ = "ok" /\ last.outS = "ok"
    /\ Len(last.resJ) = 2 /\ Len(last.resS) = 2
    /\ \E i \in 1..2 : last.resJ[i].due_date = <<2024, 10, 31, 21, 30, 0 - 240>>
    /\ \E i \in 1..2 : last.resS[i].due_date = <<2024, 10, 31, 21, 30, 0 - 240>>
    /\ \E i \in 1..2 : JsonLoaded(<<>>, jsonFile)[i].rec.due_date = <<2024, 11, 1, 1, 30>>
    /\ \E i \in 1..2 : dbFile.rows[i].due_date = <<2024, 11, 1, 1, 30>>


\* Days of year y before month m.
RECURSIVE DaysBeforeMonth(_, _)
DaysBeforeMonth(y, m) ==
    IF m = 1 THEN 0 ELSE DaysBeforeMonth(y, m - 1) + DaysInMonth(y, m - 1)

\* The minute that the fields <<Y, m, d, H, M>> name, counted within the
\* years of the model.
Instant(f) ==
    (((f[1] - 2024) * 366 + DaysBeforeMonth(f[1], f[2]) + f[3]) * 24 + f[4]) * 60 + f[5]

\* s is the stored string that the claim requires for the argument d.
Normalized(d, s) ==
    IF d.none THEN s = <<>>
    ELSE IF d.tz \in {"naive", "UTC"} THEN s = d.f
    ELSE Len(s) = 5 /\ Instant(s) = Instant(d.f) - UtcOffset(d.tz)

\* C21: add() stores no due date as the empty string, a timestamp with a
\* timezone as the same instant in UTC to the minute, and a timestamp
\* without timezone with its wall-clock fields, as the same fields given in
\* UTC are stored; in both backends.
C21_AddNormalizesDueDate ==
    [][ last'.op = "add" =>
          /\ last'.outJ = "ok"
                => Normalized(last'.due_date, GetRec(todos', last'.name).due_date)
          /\ last'.outS = "ok"
                => Normalized(last'.due_date, connRows'[Len(connRows')].due_date)
      ]_vars

C21_Witness ==
    /\ last.op = "add" /\ last.outJ = "ok" /\ last.outS = "ok"
    /\ ~last.due_date.none /\ last.due_date.tz = "America/New_York"
    /\ last.due_date.sec = 30
    /\ GetRec(todos, last.name).due_date = <<2024, 11, 1, 1, 30>>
    /\ connRows[Len(connRows)].due_date = <<2024, 11, 1, 1, 30>>


\* C22: every record that list() returns from a json store, legacy records
\* that lack fields included, has the four keys name, description, due_date
\* and done; an absent due_date is reported as the empty string and an
\* absent done as false.
C22_ListFillsAllKeys ==
    (last.op = "list" /\ last.outJ = "ok") =>
        \A i \in 1..Len(last.resJ) :
            LET todo == last.resJ[i]
                rec  == GetRec(todos, todo.name)
            IN  /\ DOMAIN todo = {"name", "description", "due_date", "done"}
                /\ "due_date" \notin DOMAIN rec => todo.due_date = <<>>
                /\ "done" \notin DOMAIN rec => todo.done = FALSE


\* Record b has the keys and values of record a, the done key apart.
SameButDone(a, b) ==
    /\ DOMAIN b \ {"done"} = DOMAIN a \ {"done"}
    /\ \A k \in DOMAIN a \ {"done"} : b[k] = a[k]

\* C23: done(name) changes nothing but the done flag of the named item: its
\* other fields, and every other item, stay as they were, in both backends.
C23_DoneChangesOnlyDone ==
    [][ last'.op = "done" =>
          /\ Len(todos') = Len(todos)
          /\ \A i \in 1..Len(todos) :
                /\ todos'[i].name = todos[i].name
                /\ IF todos[i].name = last'.name
                   THEN SameButDone(todos[i].rec, todos'[i].rec)
                   ELSE todos'[i] = todos[i]
          /\ Len(connRows') = Len(connRows)
          /\ \A i \in 1..Len(connRows) :
                IF connRows[i].name = last'.name
                THEN SameButDone(connRows[i], connRows'[i])
                ELSE connRows'[i] = connRows[i]
      ]_vars

C23_Witness ==
    /\ last.op = "done" /\ last.outJ = "ok" /\ last.outS = "ok"
    /\ HasKey(todos, last.name)
    /\ DOMAIN GetRec(todos, last.name) = FieldKeys
    /\ GetRec(todos, last.name).done /\ GetRec(todos, last.name).due_date # <<>>
    /\ \E i \in 1..Len(todos) :
          todos[i].name # last.name /\ ~(todos[i].rec @@ [done |-> FALSE]).done
    /\ \E i \in 1..Len(connRows) : connRows[i].name = last.name /\ connRows[i].done = 1
    /\ \E i \in 1..Len(connRows) : connRows[i].name # last.name /\ connRows[i].done = 0


\* Item a of the store before a step and item b of the same name after it:
\* description and due date are the same, and done has not gone back.
ItemKept(a, b) ==
    /\ a.description = b.description
    /\ a.due_date = b.due_date
    /\ a.done => b.done

\* Every name held before and after has its item kept, the name just added
\* apart.
ItemsKept(before, after, added) ==
    \A i \in 1..Len(before), j \in 1..Len(after) :
        (before[i].name = after[j].name /\ after[j].name # added)
            => ItemKept(before[i], after[j])

\* The items of the json store as records with every field.
JsonItems(t) ==
    [i \in 1..Len(t) |->
        t[i].rec @@ [name |-> t[i].name, description |-> "", due_date |-> <<>>,
                     done |-> FALSE]]

\* The items of the sqlite3 table as records with a boolean done.
SqlItems(rows) == [i \in 1..Len(rows) |-> dict_factory(rows[i])]

\* C24: over the operations on an opened store, close() included, an item
\* keeps the description and the due date given at its add until it is
\* removed, and its done flag never goes from true back to false.  After
\* close() the store is what the file holds.
C24_FieldsFixedDoneMonotone ==
    [][ (conn = "open" /\ last'.op # "load") =>
          LET added(out) == IF last'.op = "add" /\ out = "ok" THEN last'.name ELSE "-"
              jsonAfter == IF last'.op = "close"
                           THEN JsonItems(JsonLoaded(<<>>, jsonFile'))
                           ELSE JsonItems(todos')
              sqlAfter  == IF last'.op = "close"
                           THEN SqlItems(dbFile'.rows)
                           ELSE SqlItems(connRows')
          IN  /\ ItemsKept(JsonItems(todos), jsonAfter, added(last'.outJ))
              /\ ItemsKept(SqlItems(connRows), sqlAfter, added(last'.outS))
              /\ (last'.op = "add" /\ last'.outJ = "ok") =>
                    LET r == GetRec(todos', last'.name)
                    IN  /\ r.description = last'.description
                        /\ Normalized(last'.due_date, r.due_date)
                        /\ ~r.done
              /\ (last'.op = "add" /\ last'.outS = "ok") =>
                    LET r == connRows'[Len(connRows')]
                    IN  /\ r.description = last'.description
                        /\ Normalized(last'.due_date, r.due_date)
                        /\ r.done = 0
      ]_vars


\* C25: every invocation of the command line opens the store once before
\* the command and closes it once after it, whatever the command and whether
\* it succeeds or fails.
C25_OpenedAndClosedOnce ==
    last.op \in {"add", "done", "list", "rm"} =>
        calls = [loadJ |-> 1, closeJ |-> 1, loadS |-> 1, closeS |-> 1]


\* Number of rows of the given name.
RowsNamed(rows, name) == Cardinality({i \in 1..Len(rows) : rows[i].name = name})

\* C26: when two processes add the same new name to one sqlite3 file, and
\* both existence checks have found no row and both inserts have executed,
\* the table holds two rows of that name, in the file or as one of the
\* processes sees it.
C26_RaceLeavesTwoRows ==
    ( /\ race.proc[1].name = race.proc[2].name
      /\ \A p \in Procs : ~race.proc[p].found /\ race.proc[p].inserted )
        => \/ RowsNamed(dbFile.rows, race.proc[1].name) = 2
           \/ \E p \in Procs : RowsNamed(RaceView(p), race.proc[1].name) = 2


\* Position of a name in the dict: its rank in insertion order.
PosIn(t, name) == CHOOSE i \in 1..Len(t) : t[i].name = name

\* Two records of the result have the same sort key.
HasTie(res, sort_by) ==
    \E i, j \in 1..Len(res) : i < j /\ res[i][sort_by] = res[j][sort_by]

\* Records of equal sort key come in the insertion order of t.
TiesInInsertionOrder(res, t, sort_by) ==
    \A i, j \in 1..Len(res) :
        (i < j /\ res[i][sort_by] = res[j][sort_by])
            => PosIn(t, res[i].name) < PosIn(t, res[j].name)

\* C27: the json list() returns items of equal sort key in the insertion
\* order of the dict, ascending and descending alike; the result is a
\* function of the store and the arguments; and where keys tie, the
\* descending result is not the reverse of the ascending one.
C27_TiesKeepInsertionOrder ==
    (last.op = "list" /\ last.outJ = "ok") =>
        /\ TiesInInsertionOrder(last.resJ, todos, last.sort_by)
        /\ last.resJ = JsonList(todos, last.sort_by, last.sort_order).res
        /\ HasTie(last.resJ, last.sort_by)
              => JsonList(todos, last.sort_by, "desc").res
                    # Reverse(JsonList(todos, last.sort_by, "asc").res)

C27_Witness ==
    /\ last.op = "list" /\ last.outJ = "ok" /\ last.sort_order = "desc"
    /\ Len(last.resJ) >= 3
    /\ HasTie(last.resJ, last.sort_by)
    /\ \E i, j \in 1..Len(last.resJ) : last.resJ[i][last.sort_by] # last.resJ[j][last.sort_by]


\* C28: list() is read-only in both backends.  A list command, which calls
\* list(), writes into the records it was given and then closes the app,
\* leaves every stored record as it was, whether it succeeds or fails: the
\* records of the json file are those that were loaded, the rows of the
\* database file are unchanged.
C28_ListReadOnly ==
    [][ last'.op = "list" =>
          /\ JsonLoaded(<<>>, jsonFile') = JsonLoaded(<<>>, jsonFile)
          /\ dbFile'.rows = dbFile.rows
      ]_vars

C28_Witness ==
    /\ last.op = "list" /\ last.outJ = "ok" /\ calls.closeJ = 1
    /\ Len(last.resJ) >= 1
    /\ \A i \in 1..Len(last.resJ) : Len(last.resJ[i].due_date) = 6
    /\ \E i \in 1..Len(last.resJ) :
          "done" \notin DOMAIN GetRec(JsonLoaded(<<>>, jsonFile), last.resJ[i].name)
    /\ dbFile.rows # <<>>


\* C29: an add, done or rm command that fails (the name exists already, or
\* no item has the name) writes nothing: the json file is as it was before
\* the invocation, and so are the rows of the database file, and the file
\* itself where it held the table.
C29_FailedCommandWritesNothing ==
    [][ last'.op \in {"add", "done", "rm"} =>
          /\ last'.outJ # "ok" => jsonFile' = jsonFile
          /\ last'.outS # "ok"
                => /\ dbFile'.rows = dbFile.rows
                   /\ dbFile.hasTable => dbFile' = dbFile
      ]_vars

C29_Witness ==
    /\ last.op = "add" /\ last.outJ = "DuplicateName" /\ last.outS = "DuplicateName"
    /\ calls.closeJ = 0 /\ calls.closeS = 0
    /\ prev.op \in {"add", "done", "rm"}
    /\ jsonFile.exists /\ Len(jsonFile.doc) >= 2 /\ Len(dbFile.rows) >= 2


\* C30: the boolean encoding of the sqlite3 backend round-trips: a done
\* value written through adapt_bool, false by add() and true by done(), is
\* read back by list() through convert_bool as the same boolean.
C30_BoolRoundTrip ==
    /\ \A b \in BOOLEAN : convert_bool(ColumnBytes(adapt_bool(b))) = b
    /\ (last.op = "list" /\ last.outS = "ok") =>
          \A i \in 1..Len(last.resS) :
              /\ last.resS[i].done \in BOOLEAN
              /\ \E j \in 1..Len(connRows) :
                    /\ connRows[j].name = last.resS[i].name
                    /\ connRows[j].done = adapt_bool(last.resS[i].done)
    /\ (last.op = "add" /\ last.outS = "ok") =>
          ~dict_factory(connRows[Len(connRows)]).done
    /\ (last.op = "done" /\ last.outS = "ok") =>
          \A j \in 1..Len(connRows) :
              connRows[j].name = last.name => dict_factory(connRows[j]).done

C30_Witness ==
    /\ last.op = "list" /\ last.outS = "ok" /\ prev.op = "done" /\ nOps = 3
    /\ \E i \in 1..Len(last.resS) : last.resS[i].name = prev.name /\ last.resS[i].done
    /\ \E i \in 1..Len(last.resS) : ~last.resS[i].done
    /\ \E j \in 1..Len(dbFile.rows) : dbFile.rows[j].name = prev.name /\ dbFile.rows[j].done = 0

====
